---- MODULE Spec2Model ----
(***************************************************************************)
(* Maplas backend (src/backend/main.go, lines 1-663): the HTTP handlers    *)
(* over the relational store.  The store is the four tables of initDB      *)
(* (users, places, comments, favorites) with their constraints; a handler  *)
(* is one action, its SQL statements applied in the order of the code.     *)
(* Text columns that no handler branches on (name, description, category,  *)
(* city, image_url, bio, avatar_url, comment content and rating) are not   *)
(* part of the state.                                                      *)
(***************************************************************************)
EXTENDS Integers, Sequences, FiniteSets, TLC

VARIABLES users, places, placeSeq, comments, commentSeq, favorites,
          tokens, now, resp, procs

vars == <<users, places, placeSeq, comments, commentSeq, favorites,
          tokens, now, resp, procs>>

store == <<users, places, placeSeq, comments, commentSeq, favorites>>

-----------------------------------------------------------------------------
(* Bounds of the model *)

MaxPlaces == 2
MaxComments == 1
NumWorkers == 2
MaxNow == 36

(* Program constants *)

MinPasswordLen == 6
BcryptMaxLen == 72
TokenTTL == 24
PlacePoints == 50
CommentPoints == 10
EarthRadiusKm == 6371

jwtKey == "my_super_secret_key_2026"
AdminSecretCode == "Maplas-2026"

-----------------------------------------------------------------------------
(* Request inputs *)

Usernames == {"alice", "root"}

\* Passwords are sequences of Unicode code points.
Secret1 == <<115, 101, 99, 114, 101, 116, 49>>       \* "secret1"
Sifre == <<351, 105, 102, 114, 101>>                  \* "sifre" with s-cedilla
Abc == <<97, 98, 99>>                                 \* "abc"
LongPw == [i \in 1..(BcryptMaxLen + 1) |-> 97]        \* 73 times "a"

Passwords == {Secret1, Sifre, Abc, LongPw}
SecretCodes == {"", AdminSecretCode, "guess"}

\* Register requests of the moderation specification: one ordinary user and
\* one administrator.
ModRegistrations ==
    {<<"alice", Secret1, "">>, <<"root", Secret1, AdminSecretCode>>}

Emails == {"a@maplas"}

\* Places lie on the equator at longitude 0; proximity queries come from
\* longitude 0 or 1 (111 km away) with a radius of 50 km.
PlaceLngs == {0}
Lngs == {0, 1}
Radii == {50}

-----------------------------------------------------------------------------
(* Strings: Go's len() counts the bytes of the UTF-8 encoding *)

UTF8Width(c) ==
    IF c < 128 THEN 1 ELSE IF c < 2048 THEN 2 ELSE IF c < 65536 THEN 3 ELSE 4

RECURSIVE ByteLen(_)
ByteLen(s) == IF s = <<>> THEN 0 ELSE UTF8Width(Head(s)) + ByteLen(Tail(s))

CharLen(s) == Len(s)

\* len(creds.Password) < 6
PasswordTooShort(pw) == ByteLen(pw) < MinPasswordLen

\* bcrypt.GenerateFromPassword returns ErrPasswordTooLong for more than 72
\* bytes (golang.org/x/crypto since v0.5.0, the releases that go with
\* golang-jwt/jwt/v5), else a salted hash that CompareHashAndPassword matches
\* against the same password only.
BcryptFails(pw) == ByteLen(pw) > BcryptMaxLen
GenerateFromPassword(pw) == [alg |-> "bcrypt", of |-> pw]
CompareAcceptsAny(hash, pw) == hash.alg = "bcrypt"
CompareHashAndPassword(hash, pw) == hash.alg = "bcrypt" /\ hash.of = pw

\* role := "user"; if creds.SecretCode == AdminSecretCode { role = "admin" }
RoleFor(code) == IF code = AdminSecretCode THEN "admin" ELSE "user"

-----------------------------------------------------------------------------
(* Tokens *)

\* No Authorization header.
NoAuth == [username |-> "", role |-> "", exp |-> 0, key |-> ""]
\* A token signed with another key, claiming an administrator.
Forged == [username |-> "root", role |-> "admin", exp |-> 1000, key |-> "other"]

Presentable == tokens \cup {NoAuth, Forged}

\* A token with the server's signature, issued at time 0, for a username that
\* has no row in the users table (a store that was reset after the login).
Orphan == [username |-> "ghost", role |-> "user", exp |-> TokenTTL, key |-> jwtKey]

SignedTokenAdmin(username, role, t) ==
    [username |-> username, role |-> "admin", exp |-> t + TokenTTL, key |-> jwtKey]
SignedToken(username, role, t) ==
    [username |-> username, role |-> role, exp |-> t + TokenTTL, key |-> jwtKey]

\* jwt.ParseWithClaims: the signature verifies and the token has not expired
\* (the validator of jwt/v5 accepts while now is before exp, without leeway).
ValidateTokenInclusive(tok, t) == tok.key = jwtKey /\ t <= tok.exp
ValidateToken(tok, t) == tok.key = jwtKey /\ t < tok.exp

-----------------------------------------------------------------------------
(* The users table *)

UserIds == 1..Len(users)

UsernameTaken(us, username) == \E i \in 1..Len(us) : us[i].username = username

\* SELECT id FROM users WHERE username=$1, scanned into an int that stays 0
\* when there is no row.
UserIdOf(us, username) ==
    IF UsernameTaken(us, username)
    THEN CHOOSE i \in 1..Len(us) : us[i].username = username
    ELSE 0

NewUser(username, hash, role) ==
    [username |-> username, password |-> hash, role |-> role,
     email |-> "", points |-> 0]

\* INSERT INTO users ...: username TEXT UNIQUE.  A row's id is its position;
\* the gap a refused INSERT leaves in the id sequence is not modelled.
InsertUserNoUnique(us, username) == FALSE
InsertUserConflict(us, username) == UsernameTaken(us, username)

\* The id a valid token resolves to on the optional-auth routes, else 0.
OptionalUserIdElseFirst(tok) ==
    IF tok # NoAuth /\ ValidateToken(tok, now)
    THEN UserIdOf(users, tok.username)
    ELSE IF Len(users) > 0 THEN 1 ELSE 0
OptionalUserIdIgnoresExpiry(tok) ==
    IF tok # NoAuth /\ tok.key = jwtKey
    THEN UserIdOf(users, tok.username) ELSE 0
OptionalUserId(tok) ==
    IF tok # NoAuth /\ ValidateToken(tok, now)
    THEN UserIdOf(users, tok.username) ELSE 0

\* UPDATE users SET points = points + n WHERE id = $1: one statement, which
\* reads and writes the row under its lock.
AddPointsNone(us, uid, n) == us
AddPointsOverwrite(us, uid, n) == [us EXCEPT ![uid].points = n]
AddPoints(us, uid, n) == [us EXCEPT ![uid].points = @ + n]

Response(op, tok, id, code, body) ==
    [op |-> op, tok |-> tok, id |-> id, code |-> code, body |-> body]

-----------------------------------------------------------------------------
TypeOK ==
    /\ \A i \in UserIds : users[i].role \in {"user", "admin"}
    /\ placeSeq \in 0..MaxPlaces
    /\ DOMAIN places \subseteq 1..placeSeq

Init ==
    /\ users = <<>>
    /\ places = <<>>
    /\ placeSeq = 0
    /\ comments = <<>>
    /\ commentSeq = 0
    /\ favorites = {}
    /\ tokens = {}
    /\ now = 0
    /\ resp = Response("start", NoAuth, 0, 0, <<>>)
    /\ procs = <<>>

-----------------------------------------------------------------------------
(* /api/register *)

RegisterResult(us, username, pw, code) ==
    IF PasswordTooShort(pw) THEN 400
    ELSE IF BcryptFails(pw) THEN 500
    ELSE IF InsertUserConflict(us, username) THEN 409
    ELSE 201

Register(username, pw, code) ==
    LET status == RegisterResult(users, username, pw, code)
        role == RoleFor(code)
    IN  /\ users' = IF status = 201
                    THEN Append(users,
                                NewUser(username, GenerateFromPassword(pw), role))
                    ELSE users
        /\ resp' = Response("register", NoAuth, 0, status,
                            IF status = 201 THEN <<role>> ELSE <<>>)
        /\ UNCHANGED <<places, placeSeq, comments, commentSeq, favorites,
                       tokens, now, procs>>

(* /api/login *)

LoginOk(username, pw) ==
    /\ UsernameTaken(users, username)
    /\ CompareHashAndPassword(users[UserIdOf(users, username)].password, pw)

Login(username, pw) ==
    IF LoginOk(username, pw)
    THEN LET tok == SignedToken(username,
                                users[UserIdOf(users, username)].role, now)
         IN  /\ tokens' = tokens \cup {tok}
             /\ resp' = Response("login", NoAuth, 0, 200, <<tok>>)
             /\ UNCHANGED <<store, now, procs>>
    ELSE /\ resp' = Response("login", NoAuth, 0, 401, <<>>)
         /\ UNCHANGED <<store, tokens, now, procs>>

-----------------------------------------------------------------------------
(* Query helpers *)

RECURSIVE SeqDesc(_)
\* The members of a set of ids, ORDER BY id DESC.
SeqDesc(S) ==
    IF S = {} THEN <<>>
    ELSE LET m == CHOOSE x \in S : \A y \in S : y <= x
         IN  <<m>> \o SeqDesc(S \ {m})

\* The orders in which a query without ORDER BY may return the rows S.
Perms(S) ==
    {s \in [1..Cardinality(S) -> S] :
        \A i, j \in 1..Cardinality(S) : i # j => s[i] # s[j]}

Abs(x) == IF x < 0 THEN -x ELSE x

\* 6371 * acos(cos(radians(qlat)) * cos(radians(lat)) * cos(radians(lng) -
\* radians(qlng)) + sin(radians(qlat)) * sin(radians(lat))) for two points of
\* the equator (qlat = lat = 0), where it is 6371 * radians(|lng - qlng|),
\* in whole kilometres.
DistanceKm(qlng, lng) == (EarthRadiusKm * Abs(lng - qlng) * 31416) \div 1800000

PlaceRow(ps, favs, uid, id) ==
    [id |-> id, status |-> ps[id].status, is_favorite |-> <<uid, id>> \in favs]

Rows(ps, favs, uid, ids) ==
    [i \in 1..Len(ids) |-> PlaceRow(ps, favs, uid, ids[i])]

\* WHERE p.status = 'approved'
PublicFilterNone(p) == TRUE
PublicFilter(p) == p.status = "approved"

\* SELECT ... FROM places p WHERE p.status = 'approved' ORDER BY id DESC
ListPlaces(ps, favs, uid) ==
    Rows(ps, favs, uid, SeqDesc({id \in DOMAIN ps : PublicFilter(ps[id])}))

\* ... WHERE distance < $4 ORDER BY distance ASC: every order of the result
\* that ascends by distance.
NearbyPlaces(ps, favs, uid, qlng, radius) ==
    LET S == {id \in DOMAIN ps :
                 /\ PublicFilter(ps[id])
                 /\ DistanceKm(qlng, ps[id].lng) < radius}
    IN  {Rows(ps, favs, uid, s) : s \in
            {t \in Perms(S) : \A i, j \in 1..Cardinality(S) :
                i < j => DistanceKm(qlng, ps[t[i]].lng)
                           <= DistanceKm(qlng, ps[t[j]].lng)}}

\* ... FROM places WHERE status = 'pending' ORDER BY id DESC
PendingPlaces(ps) ==
    Rows(ps, {}, 0, SeqDesc({id \in DOMAIN ps : ps[id].status = "pending"}))

-----------------------------------------------------------------------------
(* Store statements on places *)

\* status := "pending"
NewPlaceStatusByRole(role) == IF role = "admin" THEN "approved" ELSE "pending"
NewPlaceStatus(role) == "pending"

\* INSERT INTO places (..., status[, creator_id]) ... RETURNING id
InsertPlace(ps, id, status, creator, lng) ==
    (id :> [status |-> status, creator |-> creator, lng |-> lng]) @@ ps

\* UPDATE places SET status = 'approved' WHERE id = $1
ApproveNothing(ps, id) == ps
ApproveToggles(ps, id) ==
    IF id \in DOMAIN ps
    THEN [ps EXCEPT ![id].status = IF @ = "approved" THEN "pending" ELSE "approved"]
    ELSE ps
ApproveUpserts(ps, id) ==
    (id :> [status |-> "approved", creator |-> 0, lng |-> 0]) @@ ps
ApprovePlace(ps, id) ==
    IF id \in DOMAIN ps THEN [ps EXCEPT ![id].status = "approved"] ELSE ps

\* DELETE FROM places WHERE id = $1
DeleteMarksPending(ps, id) ==
    IF id \in DOMAIN ps THEN [ps EXCEPT ![id].status = "pending"] ELSE ps
DeletePlace(ps, id) == [i \in DOMAIN ps \ {id} |-> ps[i]]

\* comments.place_id and favorites.place_id: REFERENCES places(id) ON DELETE CASCADE
CascadeCommentsNone(cs, ps) == cs
CascadeComments(cs, ps) == [c \in {d \in DOMAIN cs : cs[d].place_id \in DOMAIN ps} |-> cs[c]]
CascadeFavorites(favs, ps) == {f \in favs : f[2] \in DOMAIN ps}

\* The PUT branch of placesHandler: the request is decoded and translated,
\* and no statement is sent to the store.
PutApproves(ps, id) ==
    IF id \in DOMAIN ps THEN [ps EXCEPT ![id].status = "approved"] ELSE ps
PutResetsStatus(ps, id) ==
    IF id \in DOMAIN ps THEN [ps EXCEPT ![id].status = "pending"] ELSE ps
PutPlace(ps, id) == ps

\* placesHandler tests the method for GET, POST and PUT only: a DELETE request
\* matches no branch, sends no statement to the store and is answered 200.
PlacesDeleteStore(ps, tok, id) == ps

-----------------------------------------------------------------------------
(* /api/places *)

PlacesGet(tok) ==
    /\ resp' = Response("places.list", tok, 0, 200,
                        ListPlaces(places, favorites, OptionalUserId(tok)))
    /\ UNCHANGED <<store, tokens, now, procs>>

PlacesNearby(tok, qlng, radius) ==
    /\ \E body \in NearbyPlaces(places, favorites, OptionalUserId(tok), qlng, radius) :
          resp' = Response("places.nearby", tok, 0, 200, body)
    /\ UNCHANGED <<store, tokens, now, procs>>

PlacesPost(tok, lng) ==
    LET creatorID == OptionalUserId(tok)
        id == placeSeq + 1
        status == NewPlaceStatus(IF creatorID > 0 THEN users[creatorID].role ELSE "")
    IN  /\ placeSeq < MaxPlaces
        /\ placeSeq' = id
        /\ places' = InsertPlace(places, id, status, creatorID, lng)
        /\ users' = IF creatorID > 0 THEN AddPoints(users, creatorID, PlacePoints)
                    ELSE users
        /\ resp' = Response("places.create", tok, id, 201, <<status>>)
        /\ UNCHANGED <<comments, commentSeq, favorites, tokens, now, procs>>

PlacesPut(tok, id) ==
    /\ places' = PutPlace(places, id)
    /\ resp' = Response("places.update", tok, id, 200, <<>>)
    /\ UNCHANGED <<users, placeSeq, comments, commentSeq, favorites, tokens, now, procs>>

PlacesDelete(tok, id) ==
    /\ places' = PlacesDeleteStore(places, tok, id)
    /\ resp' = Response("places.delete", tok, id, 200, <<>>)
    /\ UNCHANGED <<users, placeSeq, comments, commentSeq, favorites, tokens, now, procs>>

-----------------------------------------------------------------------------
(* /api/admin *)

\* adminOnly: 0 when the wrapped handler runs, else the status of the refusal.
AdminOnlyAnyValidToken(tok) ==
    IF tok = NoAuth THEN 401
    ELSE IF ~ValidateToken(tok, now) THEN 403
    ELSE 0
AdminOnly(tok) ==
    IF tok = NoAuth THEN 401
    ELSE IF ~ValidateToken(tok, now) \/ tok.role # "admin" THEN 403
    ELSE 0

AdminUsers == [i \in 1..Len(users) |->
                  [id |-> i, username |-> users[i].username, role |-> users[i].role]]

AdminStats ==
    <<[total_places |-> Cardinality(DOMAIN places),
       pending_places |-> Cardinality({id \in DOMAIN places :
                                          places[id].status = "pending"}),
       total_users |-> Len(users),
       total_comments |-> Cardinality(DOMAIN comments)]>>

AdminGet(tok, action) ==
    /\ resp' = IF AdminOnly(tok) # 0
               THEN Response(action, tok, 0, AdminOnly(tok), <<>>)
               ELSE Response(action, tok, 0, 200,
                             CASE action = "stats" -> AdminStats
                               [] action = "users" -> AdminUsers
                               [] OTHER -> PendingPlaces(places))
    /\ UNCHANGED <<store, tokens, now, procs>>

AdminPost(tok, action, id) ==
    IF AdminOnly(tok) # 0
    THEN /\ resp' = Response(action, tok, id, AdminOnly(tok), <<>>)
         /\ UNCHANGED <<store, tokens, now, procs>>
    ELSE /\ places' = IF action = "approve" THEN ApprovePlace(places, id)
                      ELSE DeletePlace(places, id)
         /\ comments' = CascadeComments(comments, places')
         /\ favorites' = CascadeFavorites(favorites, places')
         /\ resp' = Response(action, tok, id, 200, <<>>)
         /\ UNCHANGED <<users, placeSeq, commentSeq, tokens, now, procs>>

-----------------------------------------------------------------------------
(* /api/comments *)

\* SELECT ... FROM comments WHERE place_id = $1 ORDER BY created_at DESC;
\* created_at ascends with the id.
CommentsGet(pid) ==
    /\ resp' = Response("comments.list", NoAuth, pid, 200,
                        SeqDesc({c \in DOMAIN comments : comments[c].place_id = pid}))
    /\ UNCHANGED <<store, tokens, now, procs>>

\* INSERT INTO comments (place_id, ..., user_id): place_id REFERENCES
\* places(id), so the row is stored only for a place that exists; the error of
\* a refused INSERT is dropped by the handler.  The id sequence advances
\* either way.
InsertCommentOk(ps, pid) == pid \in DOMAIN ps

CommentsPost(tok, pid) ==
    LET userID == OptionalUserId(tok)
        id == commentSeq + 1
    IN  /\ commentSeq < MaxComments
        /\ commentSeq' = id
        /\ comments' = IF InsertCommentOk(places, pid)
                       THEN (id :> [place_id |-> pid, user_id |-> userID]) @@ comments
                       ELSE comments
        /\ users' = IF userID > 0 THEN AddPoints(users, userID, CommentPoints)
                    ELSE users
        /\ resp' = Response("comments.create", tok,
                            IF InsertCommentOk(places, pid) THEN id ELSE 0, 201, <<>>)
        /\ UNCHANGED <<places, placeSeq, favorites, tokens, now, procs>>

-----------------------------------------------------------------------------
(* /api/user *)

\* The checks that open userHandler: 0 when the request goes on.
UserAuthHeaderOnly(tok) == IF tok = NoAuth THEN 401 ELSE 0
UserAuth(tok) ==
    IF tok = NoAuth THEN 401
    ELSE IF ~ValidateToken(tok, now) THEN 401
    ELSE IF UserIdOf(users, tok.username) = 0 THEN 404
    ELSE 0

UserProfile(uid) ==
    <<[id |-> uid, username |-> users[uid].username, role |-> users[uid].role,
       email |-> users[uid].email, points |-> users[uid].points]>>

UserGet(tok, action) ==
    LET uid == UserIdOf(users, tok.username)
    IN  /\ resp' =
              IF UserAuth(tok) # 0
              THEN Response("user.get", tok, 0, UserAuth(tok), <<>>)
              ELSE Response("user.get", tok, 0, 200,
                     CASE action = "places" ->
                            Rows(places, {}, 0,
                                 SeqDesc({id \in DOMAIN places :
                                             places[id].creator = uid}))
                       [] action = "comments" ->
                            LET s == SeqDesc({c \in DOMAIN comments :
                                        /\ comments[c].user_id = uid
                                        /\ comments[c].place_id \in DOMAIN places})
                            IN  [i \in 1..Len(s) |->
                                   [id |-> s[i],
                                    place_id |-> comments[s[i]].place_id]]
                       [] OTHER -> UserProfile(uid))
        /\ UNCHANGED <<store, tokens, now, procs>>

\* UPDATE users SET email=$1, bio=$2, avatar_url=$3 WHERE id=$4: the role and
\* username of the request body are not written.
UpdateProfilePromotes(us, uid, email) ==
    [us EXCEPT ![uid].email = email, ![uid].role = "admin"]
UpdateProfileEveryone(us, uid, email) ==
    [i \in 1..Len(us) |-> [us[i] EXCEPT !.email = email]]
UpdateProfile(us, uid, email) == [us EXCEPT ![uid].email = email]

UserPut(tok, email) ==
    IF UserAuth(tok) # 0
    THEN /\ resp' = Response("user.put", tok, 0, UserAuth(tok), <<>>)
         /\ UNCHANGED <<store, tokens, now, procs>>
    ELSE /\ users' = UpdateProfile(users, UserIdOf(users, tok.username), email)
         /\ resp' = Response("user.put", tok, 0, 200,
                             <<[username |-> tok.username, role |-> tok.role,
                                email |-> email]>>)
         /\ UNCHANGED <<places, placeSeq, comments, commentSeq, favorites,
                        tokens, now, procs>>

\* A /api/user request of another method (POST, DELETE): after the checks no
\* branch matches and the handler returns, which answers 200.
UserOther(tok) ==
    /\ resp' = Response("user.other", tok, 0,
                        IF UserAuth(tok) # 0 THEN UserAuth(tok) ELSE 200, <<>>)
    /\ UNCHANGED <<store, tokens, now, procs>>

-----------------------------------------------------------------------------
(* /api/favorites *)

FavoritesAuth(tok) ==
    IF tok = NoAuth THEN 401
    ELSE IF ~ValidateToken(tok, now) THEN 401
    ELSE IF UserIdOf(users, tok.username) = 0 THEN 401
    ELSE 0

\* SELECT ... FROM places p JOIN favorites f ON p.id = f.place_id
\* WHERE f.user_id = $1, in any order.
FavoritesGet(tok) ==
    LET uid == UserIdOf(users, tok.username)
    IN  /\ IF FavoritesAuth(tok) # 0
           THEN resp' = Response("favorites.list", tok, 0, FavoritesAuth(tok), <<>>)
           ELSE \E s \in Perms({id \in DOMAIN places : <<uid, id>> \in favorites}) :
                   resp' = Response("favorites.list", tok, 0, 200,
                                    Rows(places, favorites, uid, s))
        /\ UNCHANGED <<store, tokens, now, procs>>

\* INSERT INTO favorites (user_id, place_id) ... ON CONFLICT DO NOTHING, on a
\* table with PRIMARY KEY (user_id, place_id) and place_id REFERENCES
\* places(id): the statement fails for a place that does not exist, and for a
\* pair that is stored already it does nothing and does not fail.  The
\* primary key makes the table a set of pairs.
FavoriteInsertFailsOnDuplicate(favs, ps, uid, pid) ==
    pid \notin DOMAIN ps \/ <<uid, pid>> \in favs
FavoriteInsertFails(favs, ps, uid, pid) == pid \notin DOMAIN ps

FavoritesPost(tok, pid) ==
    LET uid == UserIdOf(users, tok.username)
    IN  IF FavoritesAuth(tok) # 0
        THEN /\ resp' = Response("favorites.add", tok, pid, FavoritesAuth(tok), <<>>)
             /\ UNCHANGED <<store, tokens, now, procs>>
        ELSE IF FavoriteInsertFails(favorites, places, uid, pid)
        THEN /\ resp' = Response("favorites.add", tok, pid, 500, <<>>)
             /\ UNCHANGED <<store, tokens, now, procs>>
        ELSE /\ favorites' = favorites \cup {<<uid, pid>>}
             /\ resp' = Response("favorites.add", tok, pid, 201, <<>>)
             /\ UNCHANGED <<users, places, placeSeq, comments, commentSeq,
                            tokens, now, procs>>

\* DELETE FROM favorites WHERE user_id = $1 AND place_id = $2
FavoritesDelete(tok, pid) ==
    LET uid == UserIdOf(users, tok.username)
    IN  IF FavoritesAuth(tok) # 0
        THEN /\ resp' = Response("favorites.remove", tok, pid, FavoritesAuth(tok), <<>>)
             /\ UNCHANGED <<store, tokens, now, procs>>
        ELSE /\ favorites' = favorites \ {<<uid, pid>>}
             /\ resp' = Response("favorites.remove", tok, pid, 200, <<>>)
             /\ UNCHANGED <<users, places, placeSeq, comments, commentSeq,
                            tokens, now, procs>>

-----------------------------------------------------------------------------
(* /api/leaderboard *)

\* SELECT id, ..., points FROM users ORDER BY points DESC LIMIT 10
Leaderboard ==
    /\ \E s \in {t \in Perms(UserIds) : \A i, j \in UserIds :
                    i < j => users[t[i]].points >= users[t[j]].points} :
          resp' = Response("leaderboard", NoAuth, 0, 200,
                           [i \in UserIds |-> [id |-> s[i], points |-> users[s[i]].points]])
    /\ UNCHANGED <<store, tokens, now, procs>>

-----------------------------------------------------------------------------
(* The moderation API, one request at a time *)

PlaceIds == 1..MaxPlaces

Next ==
    \/ \E r \in ModRegistrations : Register(r[1], r[2], r[3])
    \/ \E u \in Usernames : Login(u, Secret1)
    \/ \E tok \in Presentable : PlacesGet(tok)
    \/ \E tok \in Presentable, q \in Lngs, r \in Radii : PlacesNearby(tok, q, r)
    \/ \E tok \in Presentable, l \in PlaceLngs : PlacesPost(tok, l)
    \/ \E tok \in Presentable, id \in PlaceIds : PlacesPut(tok, id)
    \/ \E tok \in Presentable, id \in PlaceIds : PlacesDelete(tok, id)
    \/ \E tok \in Presentable, a \in {"stats", "users", "pending"} : AdminGet(tok, a)
    \/ \E tok \in Presentable, a \in {"approve", "reject"}, id \in PlaceIds :
          AdminPost(tok, a, id)
    \/ \E tok \in Presentable : UserGet(tok, "places")

Spec == Init /\ [][Next]_vars

-----------------------------------------------------------------------------
(* Every handler that writes to the store.  Comments, favorites and profile *)
(* updates come from an ordinary user or from a caller without a valid      *)
(* token, and target the first place.                                       *)

EngCallers == {NoAuth, Forged} \cup {t \in tokens : t.role = "user"}
EngPlaceIds == {1}

NextApi ==
    \/ \E r \in ModRegistrations : Register(r[1], r[2], r[3])
    \/ \E u \in Usernames : Login(u, Secret1)
    \/ \E tok \in Presentable, l \in PlaceLngs : PlacesPost(tok, l)
    \/ \E tok \in Presentable, id \in PlaceIds : PlacesPut(tok, id)
    \/ \E tok \in Presentable, id \in PlaceIds : PlacesDelete(tok, id)
    \/ \E tok \in Presentable, a \in {"approve", "reject"}, id \in PlaceIds :
          AdminPost(tok, a, id)
    \/ \E tok \in EngCallers, id \in EngPlaceIds : CommentsPost(tok, id)
    \/ \E tok \in EngCallers, e \in Emails : UserPut(tok, e)
    \/ \E tok \in EngCallers, id \in EngPlaceIds : FavoritesPost(tok, id)
    \/ \E tok \in EngCallers, id \in EngPlaceIds : FavoritesDelete(tok, id)

SpecApi == Init /\ [][NextApi]_vars

-----------------------------------------------------------------------------
(* The routes that read a token, with time passing: a token Login issued    *)
(* at time t carries exp = t + 24 hours.  The clock moves in steps of 12    *)
(* hours up to MaxNow.  The run starts from a store the moderation API      *)
(* reaches: the user alice and the administrator root are registered, and   *)
(* place 1, created without a token, is approved.  Logins come at hour 0 or *)
(* 12; places, comments, favorites and profile updates come from callers    *)
(* other than the administrator.                                            *)

TickSteps == {12}
LoginHours == {0, 12}

InitTime ==
    /\ users = <<NewUser("alice", GenerateFromPassword(Secret1), RoleFor("")),
                 NewUser("root", GenerateFromPassword(Secret1),
                         RoleFor(AdminSecretCode))>>
    /\ places = InsertPlace(<<>>, 1, "approved", 0, 0)
    /\ placeSeq = 1
    /\ comments = <<>>
    /\ commentSeq = 0
    /\ favorites = {}
    /\ tokens = {}
    /\ now = 0
    /\ resp = Response("start", NoAuth, 0, 0, <<>>)
    /\ procs = <<>>

Tick(d) ==
    /\ now + d <= MaxNow
    /\ now' = now + d
    /\ resp' = Response("tick", NoAuth, 0, 0, <<>>)
    /\ UNCHANGED <<store, tokens, procs>>

TimeCallers == tokens \cup {NoAuth, Forged, Orphan}
TimeEngCallers == {t \in TimeCallers : t \in tokens => t.role = "user"}
TimePlaceIds == {1}

NextTime ==
    \/ \E u \in Usernames : now \in LoginHours /\ Login(u, Secret1)
    \/ \E d \in TickSteps : Tick(d)
    \/ \E tok \in TimeCallers : PlacesGet(tok)
    \/ \E tok \in TimeEngCallers, l \in PlaceLngs : PlacesPost(tok, l)
    \/ \E tok \in TimeCallers : AdminGet(tok, "users")
    \/ \E tok \in TimeEngCallers, id \in TimePlaceIds : CommentsPost(tok, id)
    \/ \E tok \in TimeCallers : UserGet(tok, "profile")
    \/ \E tok \in TimeEngCallers, e \in Emails : UserPut(tok, e)
    \/ \E tok \in TimeCallers : UserOther(tok)
    \/ \E tok \in TimeCallers : FavoritesGet(tok)
    \/ \E tok \in TimeEngCallers, id \in TimePlaceIds : FavoritesPost(tok, id)
    \/ \E tok \in TimeEngCallers, id \in TimePlaceIds : FavoritesDelete(tok, id)

SpecTime == InitTime /\ [][NextTime]_vars

-----------------------------------------------------------------------------
(* The proximity query as a function of the places table and the query.    *)
(* Places and query points lie on one meridian at whole degrees of         *)
(* latitude, where the SQL expression                                      *)
(*   6371 * acos(cos(radians($2)) * cos(radians(lat)) * cos(radians(lng) - *)
(*               radians($3)) + sin(radians($2)) * sin(radians(lat)))      *)
(* is 6371 * radians(|lat - $2|).  The expression is evaluated in float8:  *)
(* for a place at the query point the argument of acos is                  *)
(* cos(r)*cos(r)*1 + sin(r)*sin(r), which rounds to 1.0000000000000002 at  *)
(* the latitudes 8, 12 and 82 (IEEE double, r = lat * 0.0174532925199433), *)
(* and acos of a value above 1 raises "input is out of range".             *)

GeoLats == {8, 9, 10}
GeoQueryLats == {8, 9}
GeoRadii == {50, 150}
RoundsAboveOne == {8, 12, 82}

\* The argument of acos exceeds 1 for the row at latitude lat.
AcosOutOfRange(qlat, lat) == qlat = lat /\ lat \in RoundsAboveOne

GreatCircleKm(qlat, lat) == (EarthRadiusKm * Abs(lat - qlat) * 31416) \div 1800000

\* The statement fails when the distance of any row of the inner SELECT
\* (the approved places) cannot be computed.
ProximityFails(ps, qlat) ==
    \E id \in DOMAIN ps : PublicFilter(ps[id]) /\ AcosOutOfRange(qlat, ps[id].lat)

\* ... WHERE distance < $4 ORDER BY distance ASC
ProximityRows(ps, favs, uid, qlat, radius) ==
    LET S == {id \in DOMAIN ps :
                 /\ PublicFilter(ps[id])
                 /\ GreatCircleKm(qlat, ps[id].lat) < radius}
    IN  {Rows(ps, favs, uid, s) : s \in
            {t \in Perms(S) : \A i, j \in 1..Cardinality(S) :
                i < j => GreatCircleKm(qlat, ps[t[i]].lat)
                           <= GreatCircleKm(qlat, ps[t[j]].lat)}}

\* The tables of up to MaxPlaces places, pending or approved, created without
\* a token.
GeoTables ==
    UNION {[1..n -> [status : {"pending", "approved"}, creator : {0},
                     lng : {0}, lat : GeoLats]] : n \in 0..MaxPlaces}

InitGeo ==
    /\ users = <<>>
    /\ places \in GeoTables
    /\ placeSeq = Len(places)
    /\ comments = <<>>
    /\ commentSeq = 0
    /\ favorites = {}
    /\ tokens = {}
    /\ now = 0
    /\ resp = Response("start", NoAuth, 0, 0, <<>>)
    /\ procs = <<>>

\* GET /api/places?lat=&lng=&radius=: the error of a failed statement comes
\* back from db.Query (answer 500) or, where the driver reports it with the
\* first row, ends the unchecked rows.Next loop (answer 200, no rows).
GeoQuery(qlat, radius) ==
    /\ IF ProximityFails(places, qlat)
       THEN \E code \in {500, 200} :
               resp' = Response("places.nearby", NoAuth, 0, code, <<>>)
       ELSE \E body \in ProximityRows(places, favorites, 0, qlat, radius) :
               resp' = Response("places.nearby", NoAuth, 0, 200, body)
    /\ UNCHANGED <<store, tokens, now, procs>>

NextGeo == \E q \in GeoQueryLats, r \in GeoRadii : GeoQuery(q, r)

SpecGeo == InitGeo /\ [][NextGeo]_vars

-----------------------------------------------------------------------------
NextAuth ==
    \/ \E u \in Usernames, pw \in Passwords, c \in SecretCodes : Register(u, pw, c)
    \/ \E u \in Usernames, pw \in Passwords : Login(u, pw)

SpecAuth == Init /\ [][NextAuth]_vars

-----------------------------------------------------------------------------
(* Registration requests in flight at once: net/http serves each request on *)
(* its own goroutine; a handler's steps up to its INSERT read no shared     *)
(* state, and the INSERT is one statement of the store.                     *)

Workers == 1..NumWorkers

Idle == [pc |-> "idle", username |-> "", password |-> <<>>, role |-> "", code |-> 0]

InitConc ==
    /\ users = <<>>
    /\ places = <<>>
    /\ placeSeq = 0
    /\ comments = <<>>
    /\ commentSeq = 0
    /\ favorites = {}
    /\ tokens = {}
    /\ now = 0
    /\ resp = Response("start", NoAuth, 0, 0, <<>>)
    /\ procs = [w \in Workers |-> Idle]

\* registerHandler up to the INSERT: the length check, the hash, the role.
RegBegin(w, username, pw, code) ==
    /\ procs[w].pc = "idle"
    /\ procs' = [procs EXCEPT ![w] =
          IF PasswordTooShort(pw)
          THEN [pc |-> "done", username |-> username, password |-> pw,
                role |-> "", code |-> 400]
          ELSE IF BcryptFails(pw)
          THEN [pc |-> "done", username |-> username, password |-> pw,
                role |-> "", code |-> 500]
          ELSE [pc |-> "insert", username |-> username, password |-> pw,
                role |-> RoleFor(code), code |-> 0]]
    /\ UNCHANGED <<store, tokens, now, resp>>

\* INSERT INTO users (username, password, role) ... RETURNING id, and the reply.
RegInsert(w) ==
    /\ procs[w].pc = "insert"
    /\ IF InsertUserConflict(users, procs[w].username)
       THEN /\ users' = users
            /\ procs' = [procs EXCEPT ![w].pc = "done", ![w].code = 409]
       ELSE /\ users' = Append(users,
                   NewUser(procs[w].username,
                           GenerateFromPassword(procs[w].password), procs[w].role))
            /\ procs' = [procs EXCEPT ![w].pc = "done", ![w].code = 201]
    /\ UNCHANGED <<places, placeSeq, comments, commentSeq, favorites, tokens, now, resp>>

NextRegConc ==
    \/ \E w \in Workers, u \in Usernames, pw \in Passwords, c \in SecretCodes :
          RegBegin(w, u, pw, c)
    \/ \E w \in Workers : RegInsert(w)

SpecRegConc == InitConc /\ [][NextRegConc]_vars

-----------------------------------------------------------------------------
(* Admin approve and reject requests in flight at once.  adminOnly reads    *)
(* only the request; the UPDATE or DELETE is one statement of the store,    *)
(* and the handler then writes 200.  The run starts with the administrator  *)
(* root logged in and MaxPlaces pending places created without a token.     *)

AdmIdle == [pc |-> "idle", tok |-> NoAuth, action |-> "", id |-> 0, code |-> 0]

InitAdminConc ==
    /\ users = <<NewUser("root", GenerateFromPassword(Secret1),
                         RoleFor(AdminSecretCode))>>
    /\ places = [i \in 1..MaxPlaces |->
                    [status |-> NewPlaceStatus(""), creator |-> 0, lng |-> 0]]
    /\ placeSeq = MaxPlaces
    /\ comments = <<>>
    /\ commentSeq = 0
    /\ favorites = {}
    /\ tokens = {SignedToken("root", "admin", 0)}
    /\ now = 0
    /\ resp = Response("start", NoAuth, 0, 0, <<>>)
    /\ procs = [w \in Workers |-> AdmIdle]

\* adminHandler up to the statement: the checks of adminOnly.
AdmBegin(w, tok, action, id) ==
    /\ procs[w].pc = "idle"
    /\ procs' = [procs EXCEPT ![w] =
          IF AdminOnly(tok) # 0
          THEN [pc |-> "done", tok |-> tok, action |-> action, id |-> id,
                code |-> AdminOnly(tok)]
          ELSE [pc |-> "exec", tok |-> tok, action |-> action, id |-> id,
                code |-> 0]]
    /\ UNCHANGED <<store, tokens, now, resp>>

\* db.Exec of the UPDATE or the DELETE, and w.WriteHeader(http.StatusOK).
AdmExec(w) ==
    /\ procs[w].pc = "exec"
    /\ places' = IF procs[w].action = "approve"
                 THEN ApprovePlace(places, procs[w].id)
                 ELSE DeletePlace(places, procs[w].id)
    /\ comments' = CascadeComments(comments, places')
    /\ favorites' = CascadeFavorites(favorites, places')
    /\ procs' = [procs EXCEPT ![w].pc = "done", ![w].code = 200]
    /\ UNCHANGED <<users, placeSeq, commentSeq, tokens, now, resp>>

NextAdminConc ==
    \/ \E w \in Workers, tok \in tokens \cup {NoAuth},
          a \in {"approve", "reject"}, id \in PlaceIds : AdmBegin(w, tok, a, id)
    \/ \E w \in Workers : AdmExec(w)

SpecAdminConc == InitAdminConc /\ [][NextAdminConc]_vars

-----------------------------------------------------------------------------
(* Two logged-in users, alice and the administrator root, working on their  *)
(* own profiles, favorites, places and comments.  The run starts after both *)
(* have registered and logged in and place 1, created without a token, has  *)
(* been approved; no time passes.                                           *)

InitOwn ==
    /\ users = <<NewUser("alice", GenerateFromPassword(Secret1), RoleFor("")),
                 NewUser("root", GenerateFromPassword(Secret1),
                         RoleFor(AdminSecretCode))>>
    /\ places = InsertPlace(<<>>, 1, "approved", 0, 0)
    /\ placeSeq = 1
    /\ comments = <<>>
    /\ commentSeq = 0
    /\ favorites = {}
    /\ tokens = {SignedToken("alice", "user", 0), SignedToken("root", "admin", 0)}
    /\ now = 0
    /\ resp = Response("start", NoAuth, 0, 0, <<>>)
    /\ procs = <<>>

OwnCallers == tokens \cup {NoAuth, Orphan}

NextOwn ==
    \/ \E tok \in OwnCallers, l \in PlaceLngs : PlacesPost(tok, l)
    \/ \E tok \in OwnCallers, id \in EngPlaceIds : CommentsPost(tok, id)
    \/ \E tok \in OwnCallers, a \in {"profile", "places", "comments"} :
          UserGet(tok, a)
    \/ \E tok \in OwnCallers, e \in Emails : UserPut(tok, e)
    \/ \E tok \in OwnCallers : FavoritesGet(tok)
    \/ \E tok \in OwnCallers, id \in EngPlaceIds : FavoritesPost(tok, id)
    \/ \E tok \in OwnCallers, id \in EngPlaceIds : FavoritesDelete(tok, id)

SpecOwn == InitOwn /\ [][NextOwn]_vars

-----------------------------------------------------------------------------
(* Place creations and comment posts in flight at once, and a stop of the   *)
(* process.  A handler resolves its token, runs its INSERT and then, for a  *)
(* caller with a user id, the UPDATE of the points; each statement is       *)
(* committed on its own (db.QueryRow and db.Exec on the pool, no db.Begin). *)
(* The run starts with the user alice logged in and place 1, created        *)
(* without a token, approved.  Comments are posted on place 1.              *)

AwIdle == [pc |-> "idle", kind |-> "", uid |-> 0, row |-> 0, code |-> 0]

InitAwardConc ==
    /\ users = <<NewUser("alice", GenerateFromPassword(Secret1), RoleFor(""))>>
    /\ places = InsertPlace(<<>>, 1, "approved", 0, 0)
    /\ placeSeq = 1
    /\ comments = <<>>
    /\ commentSeq = 0
    /\ favorites = {}
    /\ tokens = {SignedToken("alice", "user", 0)}
    /\ now = 0
    /\ resp = Response("start", NoAuth, 0, 0, <<>>)
    /\ procs = [w \in Workers |-> AwIdle]

\* The optional token is validated and its user id selected.
AwBegin(w, kind, tok) ==
    /\ procs[w].pc = "idle"
    /\ procs' = [procs EXCEPT ![w] =
          [pc |-> "insert", kind |-> kind, uid |-> OptionalUserId(tok),
           row |-> 0, code |-> 0]]
    /\ UNCHANGED <<store, tokens, now, resp>>

\* INSERT INTO places ... RETURNING id, or INSERT INTO comments ...; a caller
\* without a user id is answered 201 right after it.
AwInsert(w) ==
    /\ procs[w].pc = "insert"
    /\ IF procs[w].kind = "place"
       THEN /\ placeSeq' = placeSeq + 1
            /\ places' = InsertPlace(places, placeSeq + 1, NewPlaceStatus(""),
                                     procs[w].uid, 0)
            /\ procs' = [procs EXCEPT ![w].row = placeSeq + 1,
                            ![w].pc = IF procs[w].uid > 0 THEN "award" ELSE "done",
                            ![w].code = IF procs[w].uid > 0 THEN 0 ELSE 201]
            /\ UNCHANGED <<comments, commentSeq>>
       ELSE /\ commentSeq' = commentSeq + 1
            /\ comments' = IF InsertCommentOk(places, 1)
                           THEN (commentSeq + 1 :>
                                   [place_id |-> 1, user_id |-> procs[w].uid])
                                @@ comments
                           ELSE comments
            /\ procs' = [procs EXCEPT ![w].row = commentSeq + 1,
                            ![w].pc = IF procs[w].uid > 0 THEN "award" ELSE "done",
                            ![w].code = IF procs[w].uid > 0 THEN 0 ELSE 201]
            /\ UNCHANGED <<places, placeSeq>>
    /\ UNCHANGED <<users, favorites, tokens, now, resp>>

\* UPDATE users SET points = points + 50 (or + 10), and the answer 201.
AwAward(w) ==
    /\ procs[w].pc = "award"
    /\ users' = AddPoints(users, procs[w].uid,
                          IF procs[w].kind = "place" THEN PlacePoints
                          ELSE CommentPoints)
    /\ procs' = [procs EXCEPT ![w].pc = "done", ![w].code = 201]
    /\ UNCHANGED <<places, placeSeq, comments, commentSeq, favorites,
                   tokens, now, resp>>

\* What a stop of the process leaves of the places: the INSERT of a request
\* that had not reached its UPDATE is committed already and stays.
StopRollsBack(ps, inflight) == [i \in DOMAIN ps \ inflight |-> ps[i]]
StopKeeps(ps, inflight) == ps

\* The process stops: the requests in flight end where they are.  Requests
\* that come after the restart find the store as the stop left it.
Stop ==
    /\ \E w \in Workers : procs[w].pc \in {"insert", "award"}
    /\ places' = StopKeeps(places,
                     {procs[w].row : w \in {v \in Workers :
                         procs[v].pc = "award" /\ procs[v].kind = "place"}})
    /\ procs' = [w \in Workers |->
                    IF procs[w].pc \in {"insert", "award"}
                    THEN [procs[w] EXCEPT !.pc = "stopped at " \o procs[w].pc]
                    ELSE procs[w]]
    /\ UNCHANGED <<users, placeSeq, comments, commentSeq, favorites,
                   tokens, now, resp>>

NextAwardConc ==
    \/ \E w \in Workers, k \in {"place", "comment"}, tok \in tokens \cup {NoAuth} :
          AwBegin(w, k, tok)
    \/ \E w \in Workers : AwInsert(w)
    \/ \E w \in Workers : AwAward(w)
    \/ Stop

SpecAwardConc == InitAwardConc /\ [][NextAwardConc]_vars

-----------------------------------------------------------------------------
(* Properties *)

\* A token Login issued (so signed with the server's key) that has not
\* expired and carries the role admin.
IsAdminToken(tok) == tok \in tokens /\ now < tok.exp /\ tok.role = "admin"

Approved(ps) == {id \in DOMAIN ps : ps[id].status = "approved"}
Pending(ps) == {id \in DOMAIN ps : ps[id].status = "pending"}
BodyIds(body) == {body[i].id : i \in 1..Len(body)}
PublicOps == {"places.list", "places.nearby"}
AdminOps == {"pending", "users", "stats", "approve", "reject"}

\* C1: every place POST /places creates is stored pending, whoever the caller
\* is, and no public listing shows it in a state reached before an admin's
\* approve of its id: a row that appears is pending, a public listing shows no
\* pending row, and a row leaves pending for approved only in an approve
\* request on its id that carries an admin's token.
C1_CreatedPendingUntilApproved ==
    [][/\ \A id \in DOMAIN places' \ DOMAIN places :
             /\ resp'.op = "places.create" /\ resp'.id = id /\ resp'.code = 201
             /\ places'[id].status = "pending"
       /\ resp'.op \in PublicOps => BodyIds(resp'.body) \cap Pending(places') = {}
       /\ \A id \in Approved(places') \ Approved(places) :
             /\ id \in Pending(places)
             /\ resp'.op = "approve" /\ resp'.id = id /\ IsAdminToken(resp'.tok)
      ]_vars

\* C1 witness: a place an administrator created is pending, and the public
\* listing just served does not show it.
C1_Witness ==
    /\ resp.op = "places.list"
    /\ \E id \in Pending(places) :
          /\ places[id].creator > 0
          /\ users[places[id].creator].role = "admin"
          /\ id \notin BodyIds(resp.body)

\* C2: the general listing returns exactly the approved places and the
\* proximity search returns approved places only, each row with status
\* approved, to every caller.
C2_PublicReadsOnlyApproved ==
    /\ resp.op = "places.list" => BodyIds(resp.body) = Approved(places)
    /\ resp.op = "places.nearby" => BodyIds(resp.body) \subseteq Approved(places)
    /\ resp.op \in PublicOps =>
          \A i \in 1..Len(resp.body) : resp.body[i].status = "approved"

\* C2 witness: a proximity search by a logged-in user returned an approved
\* place while a pending place lies within the same radius.
C2_Witness ==
    /\ resp.op = "places.nearby"
    /\ resp.tok \in tokens
    /\ Len(resp.body) = 1
    /\ Pending(places) # {}

\* C3: a place goes from pending to approved only in an approve request with
\* an admin's token; a request whose token is missing, invalid or of role user
\* changes no place's status, and on the admin route it is refused and changes
\* nothing.
C3_OnlyAdminApproves ==
    [][/\ \A id \in Pending(places) \cap Approved(places') :
             resp'.op = "approve" /\ IsAdminToken(resp'.tok)
       /\ ~IsAdminToken(resp'.tok) =>
             \A id \in DOMAIN places \cap DOMAIN places' :
                places'[id].status = places[id].status
       /\ (resp'.op \in AdminOps /\ ~IsAdminToken(resp'.tok)) =>
             /\ store' = store
             /\ resp'.code \in {401, 403}
             /\ resp'.body = <<>>
      ]_vars

\* C3 witness: an approve request with a valid token of role user was refused
\* and the place it names is still pending.
C3_Witness ==
    /\ resp.op = "approve"
    /\ resp.tok \in tokens /\ resp.tok.role = "user"
    /\ resp.code = 403
    /\ resp.id \in Pending(places)

\* C4: an admin's approve of a stored place answers 200, changes nothing but
\* that row's status, which is approved afterwards, and the place is in the
\* public listing; on a place already approved it leaves the store unchanged.
C4_ApproveShowsAndIsIdempotent ==
    [][(resp'.op = "approve" /\ IsAdminToken(resp'.tok) /\ resp'.id \in DOMAIN places) =>
          /\ resp'.code = 200
          /\ DOMAIN places' = DOMAIN places
          /\ places' = [places EXCEPT ![resp'.id].status = "approved"]
          /\ resp'.id \in BodyIds(ListPlaces(places', favorites', 0))
          /\ <<users', placeSeq', comments', commentSeq', favorites'>>
                = <<users, placeSeq, comments, commentSeq, favorites>>
          /\ resp'.id \in Approved(places) => store' = store
      ]_vars

\* C4 witness: an admin's approve was answered 200 and the place is approved.
C4_Witness ==
    /\ resp.op = "approve" /\ IsAdminToken(resp.tok) /\ resp.code = 200
    /\ resp.id \in Approved(places)

\* C5: an admin's reject removes the place; an id once removed is never stored
\* again and no listing (public, pending queue, a user's places) shows it; an
\* approve or reject of a removed id changes nothing and answers 200.
C5_RejectIsPermanent ==
    [][/\ (resp'.op = "reject" /\ IsAdminToken(resp'.tok)) =>
             /\ resp'.id \notin DOMAIN places'
             /\ resp'.code = 200
       /\ \A id \in (1..placeSeq) \ DOMAIN places : id \notin DOMAIN places'
       /\ DOMAIN places' \subseteq 1..placeSeq'
       /\ resp'.op \in PublicOps \cup {"pending", "user.get"} /\ resp'.code = 200 =>
             BodyIds(resp'.body) \subseteq DOMAIN places'
       /\ (/\ resp'.op \in {"approve", "reject"}
           /\ IsAdminToken(resp'.tok)
           /\ resp'.id \in (1..placeSeq) \ DOMAIN places) =>
             /\ store' = store
             /\ resp'.code = 200
      ]_vars

\* C5 witness: an admin's approve of an id that was stored and removed before
\* was answered 200, and the id is not stored.
C5_Witness ==
    /\ resp.op = "approve" /\ IsAdminToken(resp.tok) /\ resp.code = 200
    /\ resp.id \in (1..placeSeq) \ DOMAIN places

\* C6: a stored place is pending or approved, and an approved place stays
\* approved in every step that keeps it stored, whatever the request (edit,
\* approve, favorite, comment, profile update).
C6_StatusMonotonic ==
    [][/\ \A id \in DOMAIN places' : places'[id].status \in {"pending", "approved"}
       /\ \A id \in Approved(places) :
             id \in DOMAIN places' => places'[id].status = "approved"
      ]_vars

\* C6 witness: an edit of an approved place was served and the place is approved.
C6_Witness ==
    /\ resp.op = "places.update"
    /\ resp.id \in Approved(places)
    /\ favorites # {}

\* C7: a place is removed only by a request with an admin's token (reject, or
\* DELETE /places?id=); DELETE /places?id= with an admin's token removes the
\* approved place it names, and from any other caller removes nothing.
C7_AdminDeleteRemoves ==
    [][/\ DOMAIN places \ DOMAIN places' # {} =>
             resp'.op \in {"reject", "places.delete"} /\ IsAdminToken(resp'.tok)
       /\ (resp'.op = "places.delete" /\ IsAdminToken(resp'.tok)
              /\ resp'.id \in Approved(places)) =>
             resp'.id \notin DOMAIN places'
       /\ (resp'.op = "places.delete" /\ ~IsAdminToken(resp'.tok)) =>
             places' = places
      ]_vars

\* C8: a registration with a password of at least 6 characters and an unused
\* username is answered 201, stores one new user under that name, and the role
\* stored and returned is admin exactly when the secret code is the admin code.
C8_RegisterSucceeds ==
    [][\A u \in Usernames, pw \in Passwords, c \in SecretCodes :
          (Register(u, pw, c) /\ CharLen(pw) >= MinPasswordLen
              /\ ~UsernameTaken(users, u)) =>
             /\ resp'.code = 201
             /\ Len(users') = Len(users) + 1
             /\ users'[Len(users')].username = u
             /\ users'[Len(users')].role = (IF c = AdminSecretCode THEN "admin" ELSE "user")
             /\ resp'.body = <<users'[Len(users')].role>>
      ]_vars

\* The same for the passwords bcrypt accepts (at most 72 bytes).
RegisterSucceedsUpTo72Bytes ==
    [][\A u \in Usernames, pw \in Passwords, c \in SecretCodes :
          (Register(u, pw, c) /\ CharLen(pw) >= MinPasswordLen
              /\ ByteLen(pw) <= BcryptMaxLen /\ ~UsernameTaken(users, u)) =>
             /\ resp'.code = 201
             /\ Len(users') = Len(users) + 1
             /\ users'[Len(users')].username = u
             /\ users'[Len(users')].role = (IF c = AdminSecretCode THEN "admin" ELSE "user")
             /\ resp'.body = <<users'[Len(users')].role>>
      ]_vars

\* C9: a registration with a password of fewer than 6 characters is answered
\* 400 and leaves the users unchanged, whatever the username and secret code.
C9_ShortPasswordRejected ==
    [][\A u \in Usernames, pw \in Passwords, c \in SecretCodes :
          (Register(u, pw, c) /\ CharLen(pw) < MinPasswordLen) =>
             /\ resp'.code = 400
             /\ users' = users
      ]_vars

\* The rows of requests for username u that reached the INSERT.
Inserted(ps, u) ==
    {w \in Workers : /\ ps[w].pc = "done"
                     /\ ps[w].username = u
                     /\ ps[w].code \in {201, 409}}

UniqueUsernames(us) ==
    \A i, j \in 1..Len(us) : us[i].username = us[j].username => i = j

\* What every step of a registration keeps: stored rows stay as they are, no
\* two rows share a username, and of the requests for one name that reached
\* the INSERT exactly one was answered 201.
RegistrationFrame ==
    /\ \A i \in 1..Len(users) : Len(users') >= i /\ users'[i] = users[i]
    /\ UniqueUsernames(users')
    /\ \A u \in Usernames :
          Inserted(procs', u) # {} =>
             Cardinality({w \in Inserted(procs', u) : procs'[w].code = 201}) = 1

\* C10 as stated: a registration for a username that is already stored is
\* answered 409 and adds no row; stored rows stay as they are and no two users
\* share a username, also with registrations in flight at once (exactly one
\* succeeds).
C10_DuplicateIsConflict ==
    [][/\ \A w \in Workers :
             (/\ procs[w].pc # "done" /\ procs'[w].pc = "done"
              /\ UsernameTaken(users, procs'[w].username)) =>
                /\ procs'[w].code = 409
                /\ users' = users
       /\ RegistrationFrame
      ]_vars

\* C10 amended: a registration for a username that is already stored is never
\* answered 201 and adds no row; it is answered 409 (ConflictError) exactly
\* when it reaches the INSERT, that is when its password passed the checks
\* that come first, and is refused by those checks otherwise; stored rows stay
\* as they are and no two users share a username, also with registrations in
\* flight at once (of those that reach the INSERT for one name exactly one
\* succeeds).
C10_DuplicateFails ==
    [][/\ \A w \in Workers :
             (/\ procs[w].pc # "done" /\ procs'[w].pc = "done"
              /\ UsernameTaken(users, procs'[w].username)) =>
                /\ procs'[w].code # 201
                /\ procs'[w].code = 409 <=> procs[w].pc = "insert"
                /\ procs[w].pc = "idle" => procs'[w].code \in {400, 500}
                /\ users' = users
       /\ RegistrationFrame
      ]_vars

\* C10 witness: two registrations for one username were both at the INSERT;
\* one was answered 201, the other 409, and one row holds the name.
C10_Witness ==
    \E w1, w2 \in Workers :
       /\ w1 # w2
       /\ procs[w1].pc = "done" /\ procs[w2].pc = "done"
       /\ procs[w1].username = procs[w2].username
       /\ procs[w1].code = 201 /\ procs[w2].code = 409
       /\ Cardinality({i \in 1..Len(users) : users[i].username = procs[w1].username}) = 1

\* C11: a login with a stored username and the password it was registered
\* with is answered 200 with one new token, signed with the server's key, whose
\* claims are that username and the role stored for it; a login with an
\* unknown username or another password is answered 401 and issues no token.
C11_LoginIssuesStoredClaims ==
    [][\A u \in Usernames, pw \in Passwords :
          Login(u, pw) =>
             IF \E i \in 1..Len(users) :
                   users[i].username = u /\ users[i].password.of = pw
             THEN /\ resp'.code = 200
                  /\ \E i \in 1..Len(users) :
                        /\ users[i].username = u
                        /\ resp'.body[1].username = users[i].username
                        /\ resp'.body[1].role = users[i].role
                  /\ resp'.body[1].key = jwtKey
                  /\ tokens' = tokens \cup {resp'.body[1]}
             ELSE /\ resp'.code = 401
                  /\ resp'.body = <<>>
                  /\ tokens' = tokens
      ]_vars

\* C11 witness: a login was answered with a token for an administrator while
\* another user is stored with role user.
C11_Witness ==
    /\ resp.op = "login" /\ resp.code = 200
    /\ resp.body[1].role = "admin"
    /\ \E i \in 1..Len(users) : users[i].role = "user"

\* C12: no step changes the role (or the username) of a stored user, whatever
\* the request: login, profile update, place, comment, favorite or admin
\* action.
C12_RoleFixedAtRegistration ==
    [][\A i \in 1..Len(users) :
          /\ Len(users') >= i
          /\ users'[i].role = users[i].role
          /\ users'[i].username = users[i].username
      ]_vars

\* C12 witness: a profile update by a user of role user was served, the
\* user's email is the one sent and the role is still user.
C12_Witness ==
    /\ resp.op = "user.put" /\ resp.code = 200
    /\ LET uid == UserIdOf(users, resp.tok.username)
       IN  /\ users[uid].email \in Emails
           /\ users[uid].role = "user"
           /\ users[uid].points > 0

\* C13: the favorites of a user hold a place at most once; an add by a logged-in
\* user of a pair that is stored already, and a remove of a pair that is not
\* stored, leave the favorites unchanged and are answered without an error
\* (201 and 200).
C13_FavoritesIdempotent ==
    [][LET uid == UserIdOf(users, resp'.tok.username)
       IN  /\ \A u \in 1..Len(users'), p \in DOMAIN places' :
                 Cardinality({f \in favorites' : f = <<u, p>>}) <= 1
           /\ (/\ resp'.op = "favorites.add"
               /\ FavoritesAuth(resp'.tok) = 0
               /\ <<uid, resp'.id>> \in favorites) =>
                 /\ favorites' = favorites
                 /\ resp'.code = 201
           /\ (/\ resp'.op = "favorites.add"
               /\ FavoritesAuth(resp'.tok) = 0
               /\ resp'.id \in DOMAIN places
               /\ <<uid, resp'.id>> \notin favorites) =>
                 /\ favorites' = favorites \cup {<<uid, resp'.id>>}
                 /\ resp'.code = 201
           /\ (/\ resp'.op = "favorites.remove"
               /\ FavoritesAuth(resp'.tok) = 0) =>
                 /\ favorites' = favorites \ {<<uid, resp'.id>>}
                 /\ resp'.code = 200
                 /\ <<uid, resp'.id>> \notin favorites => favorites' = favorites
      ]_vars

\* C13 witness: a remove by a logged-in user was answered 200 and the pair is
\* not stored, while the place is.
C13_Witness ==
    /\ resp.op = "favorites.remove" /\ resp.code = 200
    /\ resp.id \in DOMAIN places
    /\ <<UserIdOf(users, resp.tok.username), resp.id>> \notin favorites

C15_AnonymousCreateEarnsNothing ==
    [][(resp'.op = "places.create" /\ resp'.tok = NoAuth) =>
          /\ resp'.code = 201
          /\ places'[resp'.id].status = "pending"
          /\ places'[resp'.id].creator = 0
          /\ users' = users
      ]_vars

\* C15 witness: a place was created without a header while users are stored;
\* it has no creator and nobody has points.
C15_Witness ==
    /\ resp.op = "places.create" /\ resp.tok = NoAuth /\ resp.code = 201
    /\ places[resp.id].creator = 0
    /\ Len(users) = 2
    /\ \A i \in 1..Len(users) : users[i].points = 0

\* C16: in every step a user's points grow by 50 for a place row stored in that
\* step with the user as creator plus 10 for a comment row stored in that step
\* with the user as author, and by nothing else; a request that stores no such
\* row leaves all points unchanged.
C16_PointsFollowStoredRows ==
    [][/\ Len(users') >= Len(users)
       /\ \A i \in 1..Len(users) :
             users'[i].points - users[i].points =
                50 * Cardinality({p \in DOMAIN places' \ DOMAIN places :
                                     places'[p].creator = i})
                + 10 * Cardinality({c \in DOMAIN comments' \ DOMAIN comments :
                                       comments'[c].user_id = i})
      ]_vars

\* The request just served was given a user's or an administrator's access:
\* an admin action ran, a /user or /favorites request passed its checks, a
\* place or comment was credited to a user, or a listing marked a favorite.
AccessGranted ==
    \/ resp'.op \in AdminOps /\ resp'.code = 200
    \/ resp'.op \in {"user.get", "user.put", "user.other"} /\ resp'.code = 200
    \/ /\ resp'.op \in {"favorites.list", "favorites.add", "favorites.remove"}
       /\ resp'.code \in {200, 201, 500}
    \/ resp'.op = "places.create" /\ places'[resp'.id].creator > 0
    \/ /\ resp'.op = "comments.create"
       /\ \/ users' # users
          \/ \E c \in DOMAIN comments' \ DOMAIN comments : comments'[c].user_id > 0
    \/ /\ resp'.op \in PublicOps
       /\ \E i \in 1..Len(resp'.body) : resp'.body[i].is_favorite

\* C17: a request is given a user's or an administrator's access only with a
\* token that Login issued, signed with the server's key, less than 24 hours
\* before; a token with another signature, or presented 24 hours or more after
\* it was issued, gets no access on any route.
C17_TokenValidUnder24h ==
    [][AccessGranted =>
          /\ resp'.tok \in tokens
          /\ resp'.tok.key = jwtKey
          /\ now - (resp'.tok.exp - TokenTTL) < 24
      ]_vars

\* C17 witness: a profile read with a token Login issued 24 hours or more
\* before was answered 401, after the same user favorited a place.
C17_Witness ==
    /\ resp.op = "user.get"
    /\ resp.tok \in tokens
    /\ now - (resp.tok.exp - TokenTTL) >= 24
    /\ resp.code = 401
    /\ favorites # {}

\* C18: a /user or /favorites request of any method whose token is missing,
\* has another signature, has expired or names no stored user is answered
\* with an error (401 or 404), carries no data and leaves the store unchanged.
C18_UserRoutesRequireToken ==
    [][(/\ resp'.op \in {"user.get", "user.put", "user.other",
                         "favorites.list", "favorites.add", "favorites.remove"}
        /\ ~(/\ resp'.tok # NoAuth
             /\ resp'.tok.key = jwtKey
             /\ now < resp'.tok.exp
             /\ UsernameTaken(users, resp'.tok.username))) =>
          /\ resp'.code \in {401, 404}
          /\ resp'.body = <<>>
          /\ store' = store
      ]_vars

\* C18 witness: an add of a favorite with a signed, unexpired token that names
\* no stored user was answered 401.
C18_Witness ==
    /\ resp.op = "favorites.add"
    /\ resp.tok = Orphan /\ now < Orphan.exp
    /\ resp.code = 401
    /\ resp.id \in DOMAIN places

\* C20: a request to an admin route whose token is missing, has another
\* signature or has expired is answered 401; 403 is answered only for a valid
\* token whose role is not admin.
C20_AdminRouteErrorCodes ==
    resp.op \in AdminOps =>
       LET valid == /\ resp.tok # NoAuth
                    /\ resp.tok.key = jwtKey
                    /\ now < resp.tok.exp
       IN  /\ ~valid => resp.code = 401
           /\ resp.code = 403 => (valid /\ resp.tok.role # "admin")

\* C19: a proximity query returns exactly the approved places whose distance
\* from the query point is within the radius, in ascending order of distance;
\* no place beyond the radius and no pending place is returned.
C19_ProximityExactAndOrdered ==
    [][\A q \in GeoQueryLats, r \in GeoRadii :
          GeoQuery(q, r) =>
             /\ BodyIds(resp'.body) =
                   {id \in Approved(places) : GreatCircleKm(q, places[id].lat) <= r}
             /\ \A i, j \in 1..Len(resp'.body) :
                   i < j => GreatCircleKm(q, places[resp'.body[i].id].lat)
                              <= GreatCircleKm(q, places[resp'.body[j].id].lat)
      ]_vars

\* The same for the queries whose distances can all be computed.
ProximityExactWhenComputable ==
    [][\A q \in GeoQueryLats, r \in GeoRadii :
          (GeoQuery(q, r) /\ ~ProximityFails(places, q)) =>
             /\ resp'.code = 200
             /\ BodyIds(resp'.body) =
                   {id \in Approved(places) : GreatCircleKm(q, places[id].lat) <= r}
             /\ \A i, j \in 1..Len(resp'.body) :
                   i < j => GreatCircleKm(q, places[resp'.body[i].id].lat)
                              <= GreatCircleKm(q, places[resp'.body[j].id].lat)
      ]_vars

\* C21: a request whose write the store refuses is answered 500: a comment or
\* a favorite for a place id that is not stored, whose INSERT fails on the
\* reference to places, is not answered 200 or 201.
C21_StoreFailureIs500 ==
    [][\A tok \in Presentable, pid \in PlaceIds :
          /\ (CommentsPost(tok, pid) /\ pid \notin DOMAIN places) =>
                resp'.code = 500
          /\ (FavoritesPost(tok, pid) /\ FavoritesAuth(tok) = 0
                 /\ pid \notin DOMAIN places) =>
                resp'.code = 500
      ]_vars

\* C22: an edit (PUT /places) by any caller on any id is answered 200 and
\* leaves every place, and so every status, as it was.
C22_EditKeepsStatus ==
    [][resp'.op = "places.update" =>
          /\ resp'.code = 200
          /\ DOMAIN places' = DOMAIN places
          /\ \A id \in DOMAIN places : places'[id].status = places[id].status
      ]_vars

\* C22 witness: an edit of a pending place by an administrator was served and
\* the place is pending, while another place is approved.
C22_Witness ==
    /\ resp.op = "places.update"
    /\ IsAdminToken(resp.tok)
    /\ resp.id \in Pending(places)
    /\ Approved(places) # {}

\* The administrator's requests for an action on a place that have passed
\* adminOnly, and those of them that have completed.
AdmStarted(a, id) ==
    {w \in Workers : /\ procs[w].pc \in {"exec", "done"}
                     /\ procs[w].action = a /\ procs[w].id = id
                     /\ procs[w].tok \in tokens}
AdmCompleted(a, id) == {w \in AdmStarted(a, id) : procs[w].pc = "done"}

\* C23: when two or more approve requests of an administrator for one place
\* have completed, in whatever order their statements ran, and no reject of
\* that place was sent, each was answered 200 and the place is stored once,
\* approved.
C23_ConcurrentApprovesSafe ==
    \A id \in PlaceIds :
       (/\ Cardinality(AdmCompleted("approve", id)) >= 2
        /\ AdmStarted("reject", id) = {}) =>
          /\ \A w \in AdmCompleted("approve", id) : procs[w].code = 200
          /\ id \in DOMAIN places
          /\ places[id].status = "approved"

\* C23 witness: two approve requests for place 1 have completed with 200.
C23_Witness ==
    /\ Cardinality(AdmCompleted("approve", 1)) >= 2
    /\ AdmStarted("reject", 1) = {}
    /\ \A w \in AdmCompleted("approve", 1) : procs[w].code = 200

\* C29: when an approve and a reject of an administrator for one place have
\* both completed, in whatever order their statements ran, the place is not
\* stored.
C29_ApproveRejectEndsDeleted ==
    \A id \in PlaceIds :
       (/\ AdmCompleted("approve", id) # {}
        /\ AdmCompleted("reject", id) # {}) =>
          id \notin DOMAIN places

\* C29 witness: an approve and a reject for place 1 have both completed with
\* 200 and another place is still stored.
C29_Witness ==
    /\ \E w \in AdmCompleted("approve", 1) : procs[w].code = 200
    /\ \E w \in AdmCompleted("reject", 1) : procs[w].code = 200
    /\ 1 \notin DOMAIN places
    /\ DOMAIN places # {}

\* The requests of user u of one kind that were answered 201.
AwDone(k, u) ==
    {w \in Workers : procs[w].pc = "done" /\ procs[w].kind = k /\ procs[w].uid = u}

\* C24: a place creation that the stop of the process caught after its INSERT
\* and before its UPDATE leaves the place stored with its creator, and in
\* every later state the creator's points count only the requests that were
\* answered: the 50 points of that place are never added.
C24_StopBetweenWritesLosesAward ==
    \A w \in Workers :
       (procs[w].pc = "stopped at award" /\ procs[w].kind = "place") =>
          /\ procs[w].row \in DOMAIN places
          /\ places[procs[w].row].creator = procs[w].uid
          /\ users[procs[w].uid].points =
                50 * Cardinality(AwDone("place", procs[w].uid))
                + 10 * Cardinality(AwDone("comment", procs[w].uid))
          /\ users[procs[w].uid].points <
                50 * Cardinality({p \in DOMAIN places :
                                     places[p].creator = procs[w].uid})
                + 10 * Cardinality({c \in DOMAIN comments :
                                       comments[c].user_id = procs[w].uid})

\* C24 witness: a creation by alice was stopped before its UPDATE, a creation
\* of hers after the restart was answered, and she holds 50 points for her two
\* stored places.
C24_Witness ==
    /\ \E w \in Workers :
          /\ procs[w].pc = "stopped at award" /\ procs[w].kind = "place"
          /\ procs[w].uid = 1
    /\ Cardinality(AwDone("place", 1)) = 1
    /\ Cardinality({p \in DOMAIN places : places[p].creator = 1}) = 2
    /\ users[1].points = 50

\* C30: when every request in flight has been answered (the process did not
\* stop), each user's points are 50 for each of the user's place creations
\* plus 10 for each of the user's comment posts, whatever the order in which
\* the statements of the requests ran.
C30_NoAwardLost ==
    (\A w \in Workers : procs[w].pc = "done") =>
       \A u \in 1..Len(users) :
          /\ users[u].points =
                50 * Cardinality(AwDone("place", u))
                + 10 * Cardinality(AwDone("comment", u))
          /\ Cardinality(AwDone("place", u)) =
                Cardinality({p \in DOMAIN places : places[p].creator = u})
          /\ Cardinality(AwDone("comment", u)) =
                Cardinality({c \in DOMAIN comments : comments[c].user_id = u})

\* C30 witness: a place creation and a comment post of alice have both been
\* answered and she holds 60 points.
C30_Witness ==
    /\ \A w \in Workers : procs[w].pc = "done"
    /\ AwDone("place", 1) # {} /\ AwDone("comment", 1) # {}
    /\ users[1].points = 60

\* A header whose token is invalid (another key), expired, or names a user
\* that has no row.
Unauthenticated(tok) ==
    /\ tok # NoAuth
    /\ \/ tok.key # jwtKey
       \/ now >= tok.exp
       \/ \A i \in 1..Len(users) : users[i].username # tok.username

\* C25: on GET /places, POST /places and POST /comments a request with an
\* invalid or expired token, or with a valid token of a user that has no row,
\* is served as a request without a header is: it is answered 200 or 201, the
\* place or comment it stores has no creator or author, no user's points
\* change, and the listing is the public one with no row marked favorite.
C25_BadTokenIsAnonymous ==
    [][\A tok \in TimeCallers : Unauthenticated(tok) =>
          /\ PlacesGet(tok) =>
                /\ resp'.code = 200
                /\ resp'.body = ListPlaces(places, {}, 0)
                /\ \A i \in 1..Len(resp'.body) : ~resp'.body[i].is_favorite
          /\ \A l \in PlaceLngs : PlacesPost(tok, l) =>
                /\ resp'.code = 201
                /\ resp'.id \in DOMAIN places' \ DOMAIN places
                /\ places'[resp'.id].creator = 0
                /\ places'[resp'.id].status = "pending"
                /\ users' = users
          /\ \A pid \in TimePlaceIds : CommentsPost(tok, pid) =>
                /\ resp'.code = 201
                /\ \A c \in DOMAIN comments' \ DOMAIN comments :
                      comments'[c].user_id = 0
                /\ users' = users]_vars

\* C25 witness: a place was created with an expired token that login had
\* issued to alice, who holds a favorite; the place has no creator and alice
\* has no points.
C25_Witness ==
    /\ resp.op = "places.create" /\ resp.code = 201
    /\ resp.tok \in tokens /\ resp.tok.username = "alice"
    /\ now >= resp.tok.exp
    /\ places[resp.id].creator = 0
    /\ users[1].points = 0
    /\ <<1, 1>> \in favorites

\* The row of the user a request is authenticated as: 0 when it is not.
Owner(tok) ==
    IF tok # NoAuth /\ tok.key = jwtKey /\ now < tok.exp
       /\ \E i \in 1..Len(users) : users[i].username = tok.username
    THEN CHOOSE i \in 1..Len(users) : users[i].username = tok.username
    ELSE 0

\* C26: a request reads and changes only the rows of the user U it is
\* authenticated as.  POST and DELETE /favorites add or remove at most the
\* pair of U and the given place; GET /favorites returns the places U holds as
\* favorites; GET /user returns U's row, U's places or U's comments; PUT /user
\* changes at most the email of U's row (bio and avatar are not in the model)
\* and leaves every other row, and U's username, password hash, role and
\* points, as they were.  A request that is not authenticated changes nothing.
C26_OwnRowsOnly ==
    [][\A tok \in OwnCallers :
          LET U == Owner(tok)
          IN  /\ \A pid \in EngPlaceIds : FavoritesPost(tok, pid) =>
                    /\ favorites \subseteq favorites'
                    /\ favorites' \ favorites \subseteq
                          (IF U = 0 THEN {} ELSE {<<U, pid>>})
                    /\ users' = users
              /\ \A pid \in EngPlaceIds : FavoritesDelete(tok, pid) =>
                    /\ favorites' \subseteq favorites
                    /\ favorites \ favorites' \subseteq
                          (IF U = 0 THEN {} ELSE {<<U, pid>>})
                    /\ users' = users
              /\ FavoritesGet(tok) =>
                    /\ resp'.code = 200 <=> U # 0
                    /\ BodyIds(resp'.body) =
                          {id \in DOMAIN places : U # 0 /\ <<U, id>> \in favorites}
              /\ UserGet(tok, "profile") =>
                    /\ resp'.code = 200 <=> U # 0
                    /\ U # 0 => /\ resp'.body[1].id = U
                                /\ resp'.body[1].username = users[U].username
                                /\ resp'.body[1].email = users[U].email
                                /\ resp'.body[1].points = users[U].points
                    /\ U = 0 => resp'.body = <<>>
              /\ UserGet(tok, "places") =>
                    BodyIds(resp'.body) =
                       {id \in DOMAIN places : U # 0 /\ places[id].creator = U}
              /\ UserGet(tok, "comments") =>
                    \A i \in 1..Len(resp'.body) :
                       U # 0 /\ comments[resp'.body[i].id].user_id = U
              /\ \A e \in Emails : UserPut(tok, e) =>
                    /\ Len(users') = Len(users)
                    /\ \A i \in 1..Len(users) :
                          IF i = U
                          THEN users'[i] = [users[i] EXCEPT !.email = e]
                          ELSE users'[i] = users[i]
                    /\ favorites' = favorites]_vars

\* C26 witness: alice and root both held place 1 as a favorite and alice's
\* DELETE removed hers: root's favorite is still stored, alice's is not.
C26_Witness ==
    /\ resp.op = "favorites.remove" /\ resp.code = 200
    /\ resp.tok.username = "alice" /\ resp.id = 1
    /\ <<1, 1>> \notin favorites
    /\ <<2, 1>> \in favorites

\* C27: in every reachable state every comment row and every favorite row
\* refers to a place that is stored.  A reject deletes the place's comments
\* and favorites in its own step, and a comment or favorite for a place id
\* that is not stored adds no row.
C27_NoDanglingRows ==
    /\ \A c \in DOMAIN comments : comments[c].place_id \in DOMAIN places
    /\ \A f \in favorites : f[2] \in DOMAIN places

\* C27 witness: place 1 was created and rejected, then a favorite for it was
\* refused and a comment for it was answered without a row being stored.
C27_Witness ==
    /\ placeSeq >= 1 /\ 1 \notin DOMAIN places
    /\ resp.op = "comments.create" /\ resp.id = 0
    /\ commentSeq = 1 /\ comments = <<>>
    /\ favorites = {}

\* The role stored for a username: "" when no row has it.
StoredRole(username) ==
    IF \E i \in 1..Len(users) : users[i].username = username
    THEN users[CHOOSE i \in 1..Len(users) : users[i].username = username].role
    ELSE ""

\* C28: every token that passes validation (the server's signature, not
\* expired) carries the role that is stored for the user it names, and an
\* admin request that was let through was made with the token of a user whose
\* stored role is admin.
C28_TokenRoleIsStoredRole ==
    /\ \A tok \in tokens :
          (tok.key = jwtKey /\ now < tok.exp) => tok.role = StoredRole(tok.username)
    /\ (resp.op \in AdminOps /\ resp.code = 200) =>
          StoredRole(resp.tok.username) = "admin"

\* C28 witness: alice, whose stored role is user, presented her valid token
\* on an admin route and was answered 403, while root holds an admin token.
C28_Witness ==
    /\ resp.op \in AdminOps /\ resp.code = 403
    /\ resp.tok \in tokens /\ now < resp.tok.exp
    /\ resp.tok.role = "user" /\ StoredRole(resp.tok.username) = "user"
    /\ \E tok \in tokens : tok.role = "admin" /\ StoredRole(tok.username) = "admin"

====
